---- MODULE Spec2Model ----
(***************************************************************************)
(* Model of the retrieval pipeline of nomads_laws:                         *)
(*   app/core/embeddings.py  EmbeddingsManager (chunker, ingestion,        *)
(*                           retrieval)                                    *)
(*   app/services/gemini.py  GeminiService.ask_legal_question              *)
(*   app/bot/handlers.py     BotHandlers.handle_message                    *)
(* Texts are strings over a small ASCII alphabet; the external services    *)
(* (embedding model, vector index, generation model, chat transport) answer*)
(* nondeterministically with every outcome their callers distinguish.      *)
(***************************************************************************)
EXTENDS Integers, Sequences, FiniteSets, TLC

VARIABLES
    settings,              \* Settings.CHUNK_SIZE / Settings.CHUNK_OVERLAP
    embedding_model,       \* TRUE iff self.embedding_model is not None
    vector_search_client,  \* TRUE iff self.vector_search_client is not None
    content,               \* the text handed to the chunker / load_document
    tags,                  \* <<country, law_type, language>> of the call
    pc,                    \* position of the running operation
    split_out,             \* outcome of a bare _split_into_chunks call
    chunks,                \* load_document: chunks
    batch_idx,             \* load_document: batch_idx
    chunk_idx,             \* load_document: chunk_idx (next position in batch)
    embeddings_data,       \* load_document: embeddings_data of the batch
    retval,                \* return value of the finished operation
    calls,                 \* outbound calls made so far, in order
    index,                 \* records held by the vector index
    question,              \* the question asked
    entry,                 \* the operation that was invoked
    context_out,           \* outcome of the get_relevant_context call
    answer,                \* handle_message: answer
    sent                   \* texts delivered to the user by reply_text

vars == <<settings, embedding_model, vector_search_client, content, tags, pc,
          split_out, chunks, batch_idx, chunk_idx, embeddings_data, retval,
          calls, index, question, entry, context_out, answer, sent>>

-----------------------------------------------------------------------------
(* Program constants *)

BatchSize == 5
MaxChunkSize == 500
MaxOverlap == 50
DefaultChunkSize == 1000
DefaultChunkOverlap == 100
TruncateBytes == 8000
TruncateChars == 4000

(* Bounds of the model *)

MaxTextLen == 5     \* characters of a text handed to the bare chunker
MaxSmall == 3       \* small configured chunk sizes 1..MaxSmall, overlaps 0..MaxSmall

None == "None"

\* the outcome of a call that has not been made
NoOutcome == [raised |-> None, value |-> <<>>]

-----------------------------------------------------------------------------
(* Inputs *)

Alphabet == {"a", "b", " "}

RECURSIVE TextsUpTo(_)
TextsUpTo(n) ==
    IF n = 0 THEN {""}
    ELSE LET P == TextsUpTo(n - 1)
         IN  P \cup {t \o c : t \in P, c \in Alphabet}

\* configured values: small ones, ones just above the caps the chunker
\* applies, and the defaults of Settings
ChunkSizes == (1..MaxSmall) \cup {MaxOverlap + 1, MaxOverlap + 2, DefaultChunkSize}
ChunkOverlaps == (0..MaxSmall) \cup {MaxOverlap + 1, DefaultChunkOverlap}

SettingsSet == [CHUNK_SIZE : ChunkSizes, CHUNK_OVERLAP : ChunkOverlaps]

-----------------------------------------------------------------------------
(* Python built-ins used by the chunker *)

Min(a, b) == IF a <= b THEN a ELSE b

CharAt(s, i) == SubSeq(s, i, i)

\* str.split(): the maximal runs of non-whitespace characters, in order
RECURSIVE SplitFrom(_, _, _, _)
SplitFrom(s, i, cur, acc) ==
    IF i > Len(s)
        THEN (IF cur = "" THEN acc ELSE Append(acc, cur))
    ELSE IF CharAt(s, i) = " "
        THEN SplitFrom(s, i + 1, "", IF cur = "" THEN acc ELSE Append(acc, cur))
    ELSE SplitFrom(s, i + 1, cur \o CharAt(s, i), acc)

StrSplit(s) == SplitFrom(s, 1, "", <<>>)

\* sep.join(ws)
RECURSIVE JoinWith(_, _)
JoinWith(sep, ws) ==
    IF Len(ws) = 0 THEN ""
    ELSE IF Len(ws) = 1 THEN ws[1]
    ELSE ws[1] \o sep \o JoinWith(sep, Tail(ws))

\* " ".join(ws)
StrJoin(ws) == JoinWith(" ", ws)

\* ws[i:j] for 0 <= i and 0 <= j (0-based, end exclusive, clipped to len)
Slice(ws, i, j) == SubSeq(ws, i + 1, Min(j, Len(ws)))

\* list(range(0, n, step)) for step > 0
RECURSIVE RangeFrom(_, _, _)
RangeFrom(i, n, step) ==
    IF i >= n THEN <<>> ELSE <<i>> \o RangeFrom(i + step, n, step)

-----------------------------------------------------------------------------
(* EmbeddingsManager._split_into_chunks *)

EffChunkSize(s) == Min(s.CHUNK_SIZE, MaxChunkSize)
EffOverlap(s) == Min(s.CHUNK_OVERLAP, MaxOverlap)
StepPlusOverlap(s) == EffChunkSize(s) + EffOverlap(s)

Step(s) == EffChunkSize(s) - EffOverlap(s)

\* start indices (0-based) the for loop visits; range() with a negative step
\* and a non-negative stop is empty
ChunkStarts(s, n) ==
    IF Step(s) < 0 THEN <<>> ELSE RangeFrom(0, n, Step(s))

\* the word window of the chunk starting at word index i
Window(s, words, i) == Slice(words, i, i + EffChunkSize(s))

\* outcome of the call: the chunk list, or the ValueError range() raises
\* for a zero step
SplitIntoChunks(s, text) ==
    LET words == StrSplit(text)
    IN  IF Step(s) = 0
            THEN [raised |-> "ValueError", value |-> <<>>]
            ELSE LET starts == ChunkStarts(s, Len(words))
                 IN  [raised |-> None,
                      value |-> [k \in 1..Len(starts) |->
                                     StrJoin(Window(s, words, starts[k]))]]

-----------------------------------------------------------------------------
(* Specification of the bare chunker: inputs drawn from bounded sets *)

Idle ==
    /\ embedding_model = TRUE
    /\ vector_search_client = TRUE
    /\ tags = <<"georgia", "tax", "ru">>
    /\ chunks = <<>>
    /\ batch_idx = 0
    /\ chunk_idx = 0
    /\ embeddings_data = <<>>
    /\ retval = None
    /\ calls = <<>>
    /\ index = {}
    /\ question = ""
    /\ context_out = NoOutcome
    /\ answer = None
    /\ sent = <<>>

InitChunk ==
    /\ settings \in SettingsSet
    /\ content \in TextsUpTo(MaxTextLen)
    /\ pc = "split"
    /\ entry = "_split_into_chunks"
    /\ split_out = NoOutcome
    /\ Idle

CallSplit ==
    /\ pc = "split"
    /\ split_out' = SplitIntoChunks(settings, content)
    /\ pc' = "split_done"
    /\ UNCHANGED <<settings, embedding_model, vector_search_client, content,
                   tags, chunks, batch_idx, chunk_idx, embeddings_data, retval,
                   calls, index, question, entry,
                   context_out, answer, sent>>

NextChunk == CallSplit

SpecChunk == InitChunk /\ [][NextChunk]_vars

-----------------------------------------------------------------------------
(* External services as seen by EmbeddingsManager *)

\* what embedding_model.get_embeddings does: raises, returns an empty list,
\* or returns one embedding whose values are empty or a vector
EmbedResponses == {"raise", "no_embeddings", "empty_values", "vector"}

\* the vector of a successful response (its content is opaque to the code)
Vector == <<"v">>

\* what vector_search_client.upsert_embeddings does
UpsertResponses == {"ok", "raise"}

TagSet == {<<"georgia", "tax", "ru">>, <<"armenia", "civil", "en">>}

\* len(text.encode('utf-8')) for the ASCII texts of the model
Utf8Len(text) == Len(text)

\* text[:n]
Prefix(text, n) == SubSeq(text, 1, Min(n, Len(text)))

(* EmbeddingsManager._generate_embedding: the request it sends and the value
   it returns for each answer of the model *)
Truncated(text) ==
    IF Utf8Len(text) > TruncateBytes THEN Prefix(text, TruncateChars) ELSE text

EmbeddingInput(text, title, is_document) ==
    [text |-> Truncated(text),
     task_type |-> IF is_document THEN "RETRIEVAL_DOCUMENT" ELSE "RETRIEVAL_QUERY",
     title |-> IF is_document THEN title ELSE None]

GenerateEmbedding(resp) ==
    CASE resp = "raise"         -> None
      [] resp = "no_embeddings" -> None
      [] resp = "empty_values"  -> <<>>
      [] resp = "vector"        -> Vector

\* Python truthiness of an Optional[List[float]]
Truthy(embedding) == embedding # None /\ embedding # <<>>

-----------------------------------------------------------------------------
(* EmbeddingsManager.load_document *)

Title(t) == t[1] \o "-" \o t[2] \o "-" \o t[3]

RecordIdInBatch(t, k) == Title(t) \o "-" \o ToString(k % BatchSize)

RecordId(t, k) == Title(t) \o "-" \o ToString(k)

MakeRecord(t, k, chunk, embedding) ==
    [id |-> RecordId(t, k),
     embedding |-> embedding,
     metadata |-> [country |-> t[1], law_type |-> t[2], language |-> t[3],
                   text |-> chunk]]

\* chunks[batch_idx:batch_idx + batch_size]
BatchOf(cs, b) == Slice(cs, b, b + BatchSize)

\* the batch's embeddings_data after the embedding call for its chunk at
\* position c returned embedding
AfterEmbeddingAbort(data, t, b, c, chunk, embedding) ==
    IF Truthy(embedding)
        THEN Append(data, MakeRecord(t, b + c, chunk, embedding))
        ELSE <<>>

AfterEmbedding(data, t, b, c, chunk, embedding) ==
    IF Truthy(embedding)
        THEN Append(data, MakeRecord(t, b + c, chunk, embedding))
        ELSE data

\* the index after an upsert of recs: a record replaces the one with its id
Upserted(idx, recs) ==
    {r \in idx : \A i \in 1..Len(recs) : recs[i].id # r.id}
        \cup {recs[i] : i \in 1..Len(recs)}

\* entries of the call log: a _generate_embedding call for the chunk at
\* position k with what it returned ("vector": a non-empty vector, "none":
\* None or an empty list), and an _upload_embeddings call with its outcome
EmbedCall(k, input, embedding) ==
    [op |-> "embed", k |-> k, input |-> input, recs |-> <<>>,
     result |-> IF Truthy(embedding) THEN "vector" ELSE "none"]

UploadCall(recs, result) ==
    [op |-> "upload", k |-> None, input |-> None, recs |-> recs,
     result |-> result]

\* lines 49-60: the model check, the chunker call and the loop entry
LoadEnter ==
    /\ pc = "load"
    /\ LET r == SplitIntoChunks(settings, content)
       IN  IF ~embedding_model \/ r.raised # None
               THEN /\ retval' = FALSE
                    /\ pc' = "load_done"
                    /\ UNCHANGED chunks
               ELSE /\ chunks' = r.value
                    /\ IF Len(r.value) = 0
                          THEN retval' = TRUE /\ pc' = "load_done"
                          ELSE retval' = retval /\ pc' = "embed"
    /\ UNCHANGED <<settings, embedding_model, vector_search_client, content,
                   tags, split_out, batch_idx, chunk_idx, embeddings_data,
                   calls, index, question, entry,
                   context_out, answer, sent>>

\* lines 67-89: one iteration of the inner loop
EmbedChunk ==
    /\ pc = "embed"
    /\ LET batch == BatchOf(chunks, batch_idx)
           chunk == batch[chunk_idx + 1]
       IN  \E resp \in EmbedResponses :
             /\ calls' = Append(calls,
                    EmbedCall(batch_idx + chunk_idx,
                              EmbeddingInput(chunk, Title(tags), TRUE),
                              GenerateEmbedding(resp)))
             /\ embeddings_data' =
                    AfterEmbedding(embeddings_data, tags, batch_idx, chunk_idx,
                                   chunk, GenerateEmbedding(resp))
             /\ chunk_idx' = chunk_idx + 1
             /\ pc' = IF chunk_idx + 1 < Len(batch) THEN "embed" ELSE "upload"
    /\ UNCHANGED <<settings, embedding_model, vector_search_client, content,
                   tags, split_out, chunks, batch_idx, retval, index,
                   question, entry,
                   context_out, answer, sent>>

AdvanceBatchKeepData ==
    /\ batch_idx' = batch_idx + BatchSize
    /\ chunk_idx' = 0
    /\ embeddings_data' = embeddings_data
    /\ IF batch_idx + BatchSize < Len(chunks)
          THEN pc' = "embed" /\ retval' = retval
          ELSE pc' = "load_done" /\ retval' = TRUE

\* lines 62-66, 99-103: after the batch, the delay and the next batch or the
\* return
AdvanceBatch ==
    /\ batch_idx' = batch_idx + BatchSize
    /\ chunk_idx' = 0
    /\ embeddings_data' = <<>>
    /\ IF batch_idx + BatchSize < Len(chunks)
          THEN pc' = "embed" /\ retval' = retval
          ELSE pc' = "load_done" /\ retval' = TRUE

AfterUploadHalting(success) ==
    IF success
        THEN AdvanceBatch
        ELSE /\ pc' = "load_done"
             /\ retval' = FALSE
             /\ UNCHANGED <<batch_idx, chunk_idx, embeddings_data>>

AfterUploadReportsFailure(success) ==
    /\ batch_idx' = batch_idx + BatchSize
    /\ chunk_idx' = 0
    /\ embeddings_data' = <<>>
    /\ IF batch_idx + BatchSize < Len(chunks)
          THEN pc' = "embed" /\ retval' = retval
          ELSE pc' = "load_done" /\ retval' = success

\* lines 94-100: either result of the upload is only logged
AfterUpload(success) == AdvanceBatch

\* lines 91-97 with _upload_embeddings (144-172), then the loop's advance
UploadBatch ==
    /\ pc = "upload"
    /\ IF embeddings_data = <<>>
          THEN UNCHANGED <<calls, index>> /\ AdvanceBatch
          ELSE IF ~vector_search_client
              THEN /\ calls' = Append(calls,
                          UploadCall(embeddings_data, "uninitialised"))
                   /\ UNCHANGED index
                   /\ AfterUpload(FALSE)
              ELSE \E resp \in UpsertResponses :
                     /\ calls' = Append(calls,
                            UploadCall(embeddings_data, resp))
                     /\ index' = IF resp = "ok"
                                    THEN Upserted(index, embeddings_data)
                                    ELSE index
                     /\ AfterUpload(resp = "ok")
    /\ UNCHANGED <<settings, embedding_model, vector_search_client, content,
                   tags, split_out, chunks, question, entry,
                   context_out, answer, sent>>

(* Bounds and inputs of the ingestion specification *)

MaxDocWords == 11

Word(i) == IF i % 2 = 1 THEN "a" ELSE "b"

\* the document of n words a b a b ...
Doc(n) == StrJoin([i \in 1..n |-> Word(i)])

LoadSettings ==
    {[CHUNK_SIZE |-> 2, CHUNK_OVERLAP |-> 1],
     [CHUNK_SIZE |-> MaxSmall, CHUNK_OVERLAP |-> 0],
     [CHUNK_SIZE |-> 1, CHUNK_OVERLAP |-> 1],
     [CHUNK_SIZE |-> 1, CHUNK_OVERLAP |-> 2],
     [CHUNK_SIZE |-> MaxOverlap + 2, CHUNK_OVERLAP |-> MaxOverlap + 1],
     [CHUNK_SIZE |-> DefaultChunkSize, CHUNK_OVERLAP |-> DefaultChunkOverlap]}

InitLoad ==
    /\ settings \in LoadSettings
    /\ embedding_model \in BOOLEAN
    /\ vector_search_client \in BOOLEAN
    /\ content \in {Doc(n) : n \in 0..MaxDocWords}
    /\ tags \in TagSet
    /\ pc = "load"
    /\ split_out = NoOutcome
    /\ chunks = <<>>
    /\ batch_idx = 0
    /\ chunk_idx = 0
    /\ embeddings_data = <<>>
    /\ retval = None
    /\ calls = <<>>
    /\ index = {}
    /\ question = ""
    /\ entry = "load_document"
    /\ context_out = NoOutcome
    /\ answer = None
    /\ sent = <<>>

NextLoad == LoadEnter \/ EmbedChunk \/ UploadBatch

SpecLoad == InitLoad /\ [][NextLoad]_vars

-----------------------------------------------------------------------------
(* EmbeddingsManager.get_relevant_context *)

TopK == 3

DefaultTags == <<"georgia", "tax", "ru">>

\* the filter string of line 214
Filter(t) ==
    "country = '" \o t[1] \o "' AND law_type = '" \o t[2]
        \o "' AND language = '" \o t[3] \o "'"

\* the records of the index that carry exactly the tags t
Matching(idx, t) ==
    {r \in idx : /\ r.metadata.country = t[1]
                 /\ r.metadata.law_type = t[2]
                 /\ r.metadata.language = t[3]}

\* the sequences of at most n distinct elements of S
RECURSIVE SeqsUpTo(_, _)
SeqsUpTo(S, n) ==
    IF n = 0 THEN {<<>>}
    ELSE LET P == SeqsUpTo(S, n - 1)
         IN  P \cup {Append(q, x) : q \in {p \in P : Len(p) = n - 1},
                                   x \in S} 

DistinctSeqsUpTo(S, n) ==
    {q \in SeqsUpTo(S, n) : \A i \in 1..Len(q) : \A j \in 1..Len(q) :
                                i # j => q[i] # q[j]}

\* what vector_search_client.find_neighbors does: raises, returns a falsy
\* response, a response without a neighbors attribute, neighbours whose
\* metadata lacks "text", or at most num_neighbors matching records
FindResponses(idx, t, num_neighbors) ==
    {[kind |-> k, neighbors |-> <<>>] :
        k \in {"raise", "falsy", "no_neighbors_attr", "bad_metadata"}}
    \cup {[kind |-> "neighbors", neighbors |-> ns] :
            ns \in DistinctSeqsUpTo(Matching(idx, t), num_neighbors)}

ContextAfterFindUncaught(resp) ==
    IF resp.kind = "neighbors"
        THEN [raised |-> None,
              value |-> [i \in 1..Len(resp.neighbors) |->
                            resp.neighbors[i].metadata.text]]
        ELSE IF resp.kind \in {"raise", "bad_metadata"}
            THEN [raised |-> "error: " \o resp.kind, value |-> <<>>]
            ELSE [raised |-> None, value |-> <<>>]

\* lines 217-224: the value returned for an answer of the index; every
\* exception (the call's, or the KeyError of a neighbour without text) is
\* caught by line 222
ContextAfterFind(resp) ==
    IF resp.kind = "neighbors"
        THEN [raised |-> None,
              value |-> [i \in 1..Len(resp.neighbors) |->
                            resp.neighbors[i].metadata.text]]
        ELSE [raised |-> None, value |-> <<>>]

QueryCall(input, embedding) ==
    [op |-> "embed", k |-> -1, input |-> input, recs |-> <<>>,
     result |-> IF Truthy(embedding) THEN "vector" ELSE "none"]

FindCall(input, resp) ==
    [op |-> "find", k |-> -1, input |-> input, recs |-> resp.neighbors,
     result |-> resp.kind]

\* lines 195-208: the initialisation check and the query embedding
GetContextEnter ==
    /\ pc = "get_context"
    /\ IF ~(vector_search_client /\ embedding_model)
          THEN /\ context_out' = [raised |-> None, value |-> <<>>]
               /\ pc' = "retrieved"
               /\ UNCHANGED calls
          ELSE \E resp \in EmbedResponses :
                 LET query_embedding == GenerateEmbedding(resp)
                 IN  /\ calls' = Append(calls,
                            QueryCall(EmbeddingInput(question, None, FALSE),
                                      query_embedding))
                     /\ IF ~Truthy(query_embedding)
                           THEN /\ context_out' = [raised |-> None, value |-> <<>>]
                                /\ pc' = "retrieved"
                           ELSE /\ context_out' = context_out
                                /\ pc' = "find"
    /\ UNCHANGED <<settings, embedding_model, vector_search_client, content,
                   tags, split_out, chunks, batch_idx, chunk_idx,
                   embeddings_data, retval, index, question, entry, answer,
                   sent>>

\* lines 210-224: the index query and the extraction of the texts
GetContextFind ==
    /\ pc = "find"
    /\ \E resp \in FindResponses(index, tags, TopK) :
         /\ calls' = Append(calls,
                FindCall([embedding |-> Vector, num_neighbors |-> TopK,
                          filter |-> Filter(tags)], resp))
         /\ context_out' = ContextAfterFind(resp)
    /\ pc' = "retrieved"
    /\ UNCHANGED <<settings, embedding_model, vector_search_client, content,
                   tags, split_out, chunks, batch_idx, chunk_idx,
                   embeddings_data, retval, index, question, entry, answer,
                   sent>>

-----------------------------------------------------------------------------
(* GeminiService.ask_legal_question *)

\* gemini.py line 24 (the Russian text, abbreviated)
NoInfoMessage == "no relevant information found"
\* gemini.py line 41
AskApology == "an error occurred while processing your question, try later"
\* handlers.py lines 30-31
HandlerApology ==
    "an error occurred while processing your question, try later or rephrase"

\* str(e) of an exception raised at the named place
ErrorText(place) == "error: " \o place

\* what model.generate_content does: raises, returns a response whose .text
\* raises, or returns a response with a text
GeneratedTexts == {"generated answer", ""}
GenResponses ==
    {[kind |-> k, text |-> ""] : k \in {"raise", "malformed"}}
    \cup {[kind |-> "text", text |-> g] : g \in GeneratedTexts}

\* country.title() for the countries of the model
TitleCase(c) ==
    CASE c = "georgia" -> "Georgia"
      [] c = "armenia" -> "Armenia"
      [] OTHER -> c

\* lines 26-34
Prompt(q, t, relevant_chunks) ==
    "You are a Legal Assistant specializing in " \o TitleCase(t[1]) \o " "
        \o t[2] \o " law.\n Answer the following question in " \o t[3]
        \o ".\n Base your answer only on these relevant sections of law:\n\n"
        \o JoinWith("\n\n", relevant_chunks) \o "\n\nQuestion: " \o q

HasContextAlways(relevant_chunks) == TRUE

\* line 23: `if not relevant_chunks` is false
HasContext(relevant_chunks) == relevant_chunks # <<>>

AskOnExceptionRaw(e) == e

\* lines 39-41: what the except clause returns for the exception e
AskOnException(e) == AskApology

GenerateCall(prompt, resp) ==
    [op |-> "generate", k |-> -1, input |-> prompt, recs |-> <<>>,
     result |-> resp.kind, text |-> resp.text]

\* line 16: the call of get_relevant_context
AskEnter ==
    /\ pc = "ask"
    /\ pc' = "get_context"
    /\ UNCHANGED <<settings, embedding_model, vector_search_client, content,
                   tags, split_out, chunks, batch_idx, chunk_idx,
                   embeddings_data, retval, calls, index, question, entry,
                   context_out, answer, sent>>

\* lines 16-41 after get_relevant_context returned (or raised)
AskAnswer ==
    /\ pc = "retrieved"
    /\ IF context_out.raised # None
          THEN /\ answer' = AskOnException(context_out.raised)
               /\ UNCHANGED calls
          ELSE IF ~HasContext(context_out.value)
              THEN /\ answer' = NoInfoMessage
                   /\ UNCHANGED calls
              ELSE \E resp \in GenResponses :
                     /\ calls' = Append(calls,
                            GenerateCall(Prompt(question, tags, context_out.value),
                                         resp))
                     /\ answer' = IF resp.kind = "text"
                                     THEN resp.text
                                     ELSE AskOnException(ErrorText(resp.kind))
    /\ pc' = IF entry = "handle_message" THEN "reply" ELSE "ask_done"
    /\ retval' = IF entry = "handle_message" THEN retval ELSE answer'
    /\ UNCHANGED <<settings, embedding_model, vector_search_client, content,
                   tags, split_out, chunks, batch_idx, chunk_idx,
                   embeddings_data, index, question, entry, context_out, sent>>

-----------------------------------------------------------------------------
(* BotHandlers.handle_message *)

\* what a call of the chat transport (send_action, reply_text) or the access
\* to the update's fields does
TransportResponses == {"ok", "raise"}

\* lines 27-32: what the except clause replies for the exception e
HandlerOnException(e) == HandlerApology

\* the except clause: the apology is handed to reply_text, which may raise
\* in turn, and then the exception leaves the handler
HandlerExcept(texts, e) ==
    /\ sent' = Append(texts, HandlerOnException(e))
    /\ \E r \in TransportResponses :
         retval' = IF r = "ok" THEN "returned" ELSE "raised"
    /\ pc' = "handle_done"

\* lines 19-24: the update's fields and the typing action, then the call of
\* ask_legal_question with the default tags
HandleEnter ==
    /\ pc = "handle"
    /\ \E r \in TransportResponses :
         IF r = "ok"
            THEN pc' = "ask" /\ UNCHANGED <<sent, retval>>
            ELSE HandlerExcept(sent, ErrorText("send_action"))
    /\ UNCHANGED <<settings, embedding_model, vector_search_client, content,
                   tags, split_out, chunks, batch_idx, chunk_idx,
                   embeddings_data, calls, index, question, entry,
                   context_out, answer>>

\* line 25: the reply with the answer
HandleReply ==
    /\ pc = "reply"
    /\ \E r \in TransportResponses :
         IF r = "ok"
            THEN /\ sent' = Append(sent, answer)
                 /\ retval' = "returned"
                 /\ pc' = "handle_done"
            ELSE HandlerExcept(Append(sent, answer), ErrorText("reply_text"))
    /\ UNCHANGED <<settings, embedding_model, vector_search_client, content,
                   tags, split_out, chunks, batch_idx, chunk_idx,
                   embeddings_data, calls, index, question, entry,
                   context_out, answer>>

(* Bounds and inputs of the question-answering specification *)

MaxStored == 4

Questions == {"a", "a b"}

\* an index holding n records of the default tags and one of other tags
StoredIndex(n) ==
    {MakeRecord(DefaultTags, k, Doc(k + 1), Vector) : k \in 0..(n - 1)}
        \cup {MakeRecord(<<"armenia", "civil", "en">>, 0, "b", Vector)}

InitAsk ==
    /\ settings = [CHUNK_SIZE |-> DefaultChunkSize,
                   CHUNK_OVERLAP |-> DefaultChunkOverlap]
    /\ embedding_model \in BOOLEAN
    /\ vector_search_client \in BOOLEAN
    /\ content = ""
    /\ question \in Questions
    /\ entry \in {"handle_message", "ask_legal_question"}
    /\ tags \in IF entry = "handle_message" THEN {DefaultTags} ELSE TagSet
    /\ pc = IF entry = "handle_message" THEN "handle" ELSE "ask"
    /\ index \in {{}} \cup {StoredIndex(n) : n \in 0..MaxStored}
    /\ split_out = NoOutcome
    /\ chunks = <<>>
    /\ batch_idx = 0
    /\ chunk_idx = 0
    /\ embeddings_data = <<>>
    /\ retval = None
    /\ calls = <<>>
    /\ context_out = NoOutcome
    /\ answer = None
    /\ sent = <<>>

NextAsk ==
    \/ HandleEnter
    \/ AskEnter
    \/ GetContextEnter
    \/ GetContextFind
    \/ AskAnswer
    \/ HandleReply

SpecAsk == InitAsk /\ [][NextAsk]_vars

-----------------------------------------------------------------------------
(* Chunker claims, over the outcome of a finished _split_into_chunks call *)

SplitDone == pc = "split_done"
Words == StrSplit(content)
NWords == Len(Words)
ValidConfig == settings.CHUNK_OVERLAP < settings.CHUNK_SIZE
Clamped == settings.CHUNK_SIZE > MaxChunkSize \/ settings.CHUNK_OVERLAP > MaxOverlap

\* the words of the k-th returned chunk
ChunkWords(k) == StrSplit(split_out.value[k])

\* chunk k is the run of consecutive words of the text that starts at word
\* index start (0-based)
IsRunAt(k, start) ==
    /\ Len(ChunkWords(k)) >= 1
    /\ start + Len(ChunkWords(k)) <= NWords
    /\ ChunkWords(k) = SubSeq(Words, start + 1, start + Len(ChunkWords(k)))

\* every word position lies in some chunk, chunk k starting at stride * (k-1)
CoveredWithStride(stride) ==
    /\ split_out.raised = None
    /\ \A k \in 1..Len(split_out.value) : IsRunAt(k, (k - 1) * stride)
    /\ \A p \in 1..NWords :
          \E k \in 1..Len(split_out.value) :
              /\ (k - 1) * stride < p
              /\ p <= (k - 1) * stride + Len(ChunkWords(k))

CeilDiv(a, b) == (a + b - 1) \div b

\* C6 as stated: for every configured chunk_size C and overlap O with O < C,
\* every word position of the text is in some chunk, each chunk is a run of
\* consecutive words, and chunk i starts at word index i * (C - O), C and O
\* being the configured values.
C6_Original ==
    (SplitDone /\ ValidConfig) =>
        CoveredWithStride(settings.CHUNK_SIZE - settings.CHUNK_OVERLAP)

\* C6 amended: the same with the stride the chunker uses, C' - O' where
\* C' = min(C, 500) and O' = min(O, 50), for configured 1 <= C, 0 <= O < C.
C6_ChunkerCoverage ==
    (SplitDone /\ ValidConfig) =>
        CoveredWithStride(Min(settings.CHUNK_SIZE, MaxChunkSize)
                            - Min(settings.CHUNK_OVERLAP, MaxOverlap))

\* a finished call with a clamped overlap, a stride different from C - O and
\* a second chunk
C6_Witness ==
    /\ SplitDone
    /\ ValidConfig
    /\ Clamped
    /\ split_out.raised = None
    /\ Len(split_out.value) >= 2
    /\ NWords >= 3

\* C7 as stated: for configured O < C the chunker returns no chunk when the
\* text has n = 0 words, exactly one chunk holding all n words when
\* 0 < n <= C, and ceil((n - O) / (C - O)) chunks when n > C.
C7_ChunkCount ==
    (SplitDone /\ ValidConfig) =>
        /\ split_out.raised = None
        /\ NWords = 0 => split_out.value = <<>>
        /\ (0 < NWords /\ NWords <= settings.CHUNK_SIZE) =>
              /\ Len(split_out.value) = 1
              /\ ChunkWords(1) = Words
        /\ NWords > settings.CHUNK_SIZE =>
              Len(split_out.value) =
                  CeilDiv(NWords - settings.CHUNK_OVERLAP,
                          settings.CHUNK_SIZE - settings.CHUNK_OVERLAP)

\* C8 as stated: whenever the configured overlap is >= the configured
\* chunk_size, chunking fails with a ConfigurationError for every text: it
\* returns no chunk list and fails with no other error kind.
C8_InvalidConfigRejected ==
    (SplitDone /\ ~ValidConfig) => split_out.raised = "ConfigurationError"

-----------------------------------------------------------------------------
(* Ingestion claims, over the call log of a load_document call *)

LoadDone == pc = "load_done"

Positions == 0..(Len(chunks) - 1)
BatchStarts == {b \in Positions : b % 5 = 0}
BatchKs(b) == {k \in Positions : b <= k /\ k < b + 5}

\* the log at a glance: the indices of its embedding and upload calls, the
\* chunk positions embedded (with and without success), and for each upload
\* the batch it belongs to, that of the last embedding call before it (-1 if
\* there is none)
LogView ==
    LET E == {i \in 1..Len(calls) : calls[i].op = "embed"}
        U == {i \in 1..Len(calls) : calls[i].op = "upload"}
        last(i) == CHOOSE j \in E :
                       j < i /\ \A l \in (j + 1)..(i - 1) : l \notin E
    IN  [embeds |-> E,
         uploads |-> U,
         embedded |-> {calls[i].k : i \in E},
         ok |-> {calls[i].k : i \in {j \in E : calls[j].result = "vector"}},
         failed |-> {calls[i].k : i \in {j \in E : calls[j].result = "none"}},
         own |-> [i \in U |->
                    IF \E j \in E : j < i
                        THEN (calls[last(i)].k \div 5) * 5
                        ELSE -1]]

UploadsOf(v, b) == {i \in v.uploads : v.own[i] = b}

\* the positions of the batch at b whose embedding succeeded, in order
OkSeq(v, b) ==
    SelectSeq([j \in 1..Cardinality(BatchKs(b)) |-> b + j - 1],
              LAMBDA k : k \in v.ok)

ExpectedId(k) ==
    tags[1] \o "-" \o tags[2] \o "-" \o tags[3] \o "-" \o ToString(k)

\* rec is the record of the chunk at position k
IsRecordOf(rec, k) ==
    /\ rec.id = ExpectedId(k)
    /\ rec.metadata.text = chunks[k + 1]
    /\ rec.metadata.country = tags[1]
    /\ rec.metadata.law_type = tags[2]
    /\ rec.metadata.language = tags[3]

\* recs are the records of exactly the successfully embedded chunks of the
\* batch at b, in order
CarriesOkOf(v, recs, b) ==
    LET oks == OkSeq(v, b)
    IN  /\ Len(recs) = Len(oks)
        /\ \A j \in 1..Len(recs) : IsRecordOf(recs[j], oks[j])

MixedBatch(v, b) ==
    /\ BatchKs(b) \cap v.failed # {}
    /\ BatchKs(b) \cap v.ok # {}

\* C1: when a load_document call had a batch in which the embedding of a
\* chunk failed while other chunks of the batch embedded, the call issued
\* exactly one upload for that batch, carrying exactly the successfully
\* embedded chunks of the batch, embedded every chunk of every batch, and
\* returned true.
C1_PartialIngestion ==
    LoadDone =>
        LET v == LogView
        IN  \A b \in BatchStarts :
                MixedBatch(v, b) =>
                    /\ retval = TRUE
                    /\ Positions \subseteq v.embedded
                    /\ Cardinality(UploadsOf(v, b)) = 1
                    /\ \A i \in UploadsOf(v, b) : CarriesOkOf(v, calls[i].recs, b)

\* a finished call of three batches whose middle batch lost exactly one chunk
C1_Witness ==
    /\ LoadDone
    /\ retval = TRUE
    /\ Len(chunks) > 10
    /\ LET v == LogView
       IN  /\ Cardinality(BatchKs(5) \cap v.failed) = 1
           /\ Cardinality(BatchKs(5) \cap v.ok) = 4
           /\ \E i \in UploadsOf(v, 5) : Len(calls[i].recs) = 4
           /\ UploadsOf(v, 10) # {}

\* no record of a successful upsert is ever missing from the index
UpsertedRemain(v) ==
    \A i \in v.uploads :
        calls[i].result = "ok" =>
            \A j \in 1..Len(calls[i].recs) : calls[i].recs[j] \in index

FailedUploads(v) == {i \in v.uploads : calls[i].result # "ok"}
LaterBatches(v, i) == {b \in BatchStarts : b > v.own[i]}

\* C5 as stated: if the upload of a batch fails (upstream error or
\* uninitialised index client), every later batch is still embedded and its
\* upload still attempted, and the records upserted before remain in the index.
C5_Original ==
    LET v == LogView
    IN  /\ UpsertedRemain(v)
        /\ LoadDone =>
              \A i \in FailedUploads(v) : \A b \in LaterBatches(v, i) :
                  /\ BatchKs(b) \subseteq v.embedded
                  /\ UploadsOf(v, b) # {}

\* C5 amended: if the upload of a batch fails, every later batch is still
\* embedded, and its upload is still attempted whenever at least one of its
\* chunks embedded successfully; the records upserted before remain in the
\* index.
C5_NonTransactional ==
    LET v == LogView
    IN  /\ UpsertedRemain(v)
        /\ LoadDone =>
              \A i \in FailedUploads(v) : \A b \in LaterBatches(v, i) :
                  /\ BatchKs(b) \subseteq v.embedded
                  /\ BatchKs(b) \cap v.ok # {} => UploadsOf(v, b) # {}

\* a finished call whose first upload succeeded, whose second failed with the
\* client initialised and whose third was still attempted
C5_Witness ==
    /\ LoadDone
    /\ vector_search_client
    /\ LET v == LogView
       IN  /\ \E i \in UploadsOf(v, 0) :
                 calls[i].result = "ok" /\ calls[i].recs[1] \in index
           /\ \E i \in UploadsOf(v, 5) : calls[i].result = "raise"
           /\ UploadsOf(v, 10) # {}

\* C9: load_document embeds the chunks strictly in chunker order; every
\* upload is the only one of its batch, comes after every embedding call of
\* its batch and before any embedding call of a later batch, and carries
\* between 1 and 5 records, each of a successfully embedded chunk of its own
\* batch; a batch without a successfully embedded chunk issues no upload.
C9_IngestionOrdering ==
    LET v == LogView
    IN  /\ \A i \in v.embeds :
              /\ calls[i].k = Cardinality({j \in v.embeds : j < i})
              /\ calls[i].k \in Positions
              /\ calls[i].input.text = chunks[calls[i].k + 1]
        /\ \A i \in v.uploads :
              /\ v.own[i] >= 0
              /\ \A k \in BatchKs(v.own[i]) :
                    \E j \in v.embeds : j < i /\ calls[j].k = k
              /\ \A j \in v.embeds : calls[j].k >= v.own[i] + 5 => j > i
              /\ UploadsOf(v, v.own[i]) = {i}
              /\ Len(calls[i].recs) >= 1
              /\ Len(calls[i].recs) <= 5
              /\ \A j \in 1..Len(calls[i].recs) :
                    \E k \in BatchKs(v.own[i]) \cap v.ok :
                        IsRecordOf(calls[i].recs[j], k)
        /\ \A b \in BatchStarts :
              (LoadDone \/ \E k \in v.embedded : k >= b + 5) =>
                  IF BatchKs(b) \cap v.ok # {}
                      THEN \E i \in UploadsOf(v, b) :
                              \A j \in v.embeds : calls[j].k >= b + 5 => i < j
                      ELSE UploadsOf(v, b) = {}

\* a finished call of three batches whose middle batch embedded nothing and
\* issued no upload, between two batches that were uploaded
C9_Witness ==
    /\ LoadDone
    /\ Len(chunks) > 10
    /\ LET v == LogView
       IN  /\ BatchKs(5) \subseteq v.failed
           /\ UploadsOf(v, 5) = {}
           /\ UploadsOf(v, 10) # {}
           /\ \E i \in UploadsOf(v, 0) : Len(calls[i].recs) = 5

UploadedRecs(v) == {p \in v.uploads \X (1..5) : p[2] <= Len(calls[p[1]].recs)}

\* C10: every record handed to an upload is the record of a successfully
\* embedded chunk: its id is {country}-{law_type}-{language}-{k} with k the
\* zero-based position of the chunk in the chunker output, its text is that
\* chunk and its tags are the call's; each upload carries the records of
\* exactly the successful positions of its batch (a failed position leaves a
\* gap), and the ids of all records of the call are pairwise distinct.
C10_RecordIdentity ==
    LET v == LogView
        recs == UploadedRecs(v)
    IN  /\ \A i \in v.uploads : CarriesOkOf(v, calls[i].recs, v.own[i])
        /\ \A p \in recs : \A q \in recs :
              p # q => calls[p[1]].recs[p[2]].id # calls[q[1]].recs[q[2]].id

\* a finished call with uploads from three batches in which a chunk after a
\* failed one was uploaded under its own position
C10_Witness ==
    /\ LoadDone
    /\ LET v == LogView
       IN  /\ UploadsOf(v, 0) # {} /\ UploadsOf(v, 10) # {}
           /\ 5 \in v.failed
           /\ \E i \in UploadsOf(v, 5) :
                 /\ calls[i].recs[1].id = ExpectedId(6)
                 /\ calls[i].recs[1].metadata.text = chunks[7]

-----------------------------------------------------------------------------
(* Question-answering claims, over the call log of one request *)

QueryIdx == {i \in 1..Len(calls) : calls[i].op = "embed"}
FindIdx == {i \in 1..Len(calls) : calls[i].op = "find"}
GenerateIdx == {i \in 1..Len(calls) : calls[i].op = "generate"}

\* get_relevant_context has returned (or raised)
Retrieved == pc \in {"retrieved", "reply", "ask_done"} \/ answer # None
\* ask_legal_question has returned
Asked == answer # None

\* C2: get_relevant_context never raises and returns a list: the texts of
\* the neighbours the index returned, and the empty list whenever the index
\* client or the embedding model is uninitialised, the query embedding
\* fails, or the index query raises or returns a response without
\* neighbours; when a service is uninitialised it makes no embedding call
\* and no index call.
C2_GracefulRetrieval ==
    /\ ~(vector_search_client /\ embedding_model) =>
          QueryIdx = {} /\ FindIdx = {}
    /\ Retrieved =>
          /\ context_out.raised = None
          /\ ~(vector_search_client /\ embedding_model) =>
                context_out.value = <<>>
          /\ \A i \in QueryIdx :
                calls[i].result = "none" =>
                    context_out.value = <<>> /\ FindIdx = {}
          /\ \A i \in FindIdx :
                IF calls[i].result = "neighbors"
                    THEN context_out.value =
                            [j \in 1..Len(calls[i].recs) |->
                                calls[i].recs[j].metadata.text]
                    ELSE context_out.value = <<>>

\* a retrieval whose index query raised and that returned the empty list
C2_Witness ==
    /\ pc = "retrieved"
    /\ \E i \in FindIdx : calls[i].result = "raise"
    /\ context_out = [raised |-> None, value |-> <<>>]

\* C3: whenever get_relevant_context yields the empty list,
\* ask_legal_question returns the fixed no-information message and the
\* generation API is not called in that request; the generation API is
\* called at most once per request, and only after a non-empty retrieval.
C3_NoContextFallback ==
    /\ Cardinality(GenerateIdx) <= 1
    /\ GenerateIdx # {} =>
          /\ Retrieved
          /\ context_out.raised = None
          /\ context_out.value # <<>>
    /\ (Asked /\ context_out = [raised |-> None, value |-> <<>>]) =>
          /\ answer = NoInfoMessage
          /\ GenerateIdx = {}

\* a request whose index query succeeded with no neighbour and that was
\* answered with the no-information message
C3_Witness ==
    /\ Asked
    /\ \E i \in FindIdx : calls[i].result = "neighbors" /\ calls[i].recs = <<>>
    /\ answer = NoInfoMessage
    /\ GenerateIdx = {}

IsErrorText(text) == Len(text) >= 7 /\ SubSeq(text, 1, 7) = "error: "

\* C4: whenever retrieval or the generation call raises, or the generation
\* response is malformed, ask_legal_question returns its fixed apology; its
\* answer is always the generated text, the no-information message or that
\* apology; every text handle_message hands to reply_text is the generated
\* text, the no-information message or one of the two fixed apologies, and
\* never an error message.
C4_NoRawErrors ==
    /\ Asked =>
          /\ (\/ context_out.raised # None
              \/ \E i \in GenerateIdx : calls[i].result \in {"raise", "malformed"})
                 => answer = AskApology
          /\ \/ answer \in {NoInfoMessage, AskApology}
             \/ \E i \in GenerateIdx :
                   calls[i].result = "text" /\ answer = calls[i].text
    /\ \A n \in 1..Len(sent) :
          /\ ~IsErrorText(sent[n])
          /\ \/ sent[n] \in {NoInfoMessage, AskApology, HandlerApology}
             \/ \E i \in GenerateIdx :
                   calls[i].result = "text" /\ sent[n] = calls[i].text

\* a message whose generation call raised and that was answered with the
\* apology of ask_legal_question
C4_Witness ==
    /\ pc = "handle_done"
    /\ \E i \in GenerateIdx : calls[i].result = "raise"
    /\ sent = <<AskApology>>

-----------------------------------------------------------------------------
(* Return value of load_document *)

\* the chunker raises for the call's settings and content
ChunkingRaises == SplitIntoChunks(settings, content).raised # None

\* C11: load_document returns false, having made no embedding and no upload
\* call, when the embedding model is uninitialised; it returns false when
\* chunking raises; otherwise it returns true, whatever embedding calls and
\* uploads failed, also when the index client is uninitialised and nothing
\* is stored.
C11_ReturnValue ==
    LoadDone =>
        /\ ~embedding_model => retval = FALSE /\ calls = <<>>
        /\ (embedding_model /\ ChunkingRaises) => retval = FALSE /\ calls = <<>>
        /\ (embedding_model /\ ~ChunkingRaises) => retval = TRUE

\* a finished call with the index client uninitialised, in which an
\* embedding failed, every upload failed and nothing was stored, that
\* returned true
C11_Witness ==
    /\ LoadDone
    /\ embedding_model
    /\ ~vector_search_client
    /\ retval = TRUE
    /\ index = {}
    /\ LET v == LogView
       IN  /\ v.failed # {}
           /\ Cardinality(v.uploads) >= 2
           /\ \A i \in v.uploads : calls[i].result = "uninitialised"

====
